---- MODULE Spec2Model ----
(***************************************************************************)
(* The chat widget of src/components/ChatBot.tsx as a state machine.       *)
(*                                                                         *)
(* State: the four useState cells of the component (isOpen, messages,      *)
(* input, isLoading), the getAIResponse calls that are awaiting, the       *)
(* wall clock read by Date.now(), the credential read from                 *)
(* import.meta.env, and the number of fetch() calls issued.                *)
(*                                                                         *)
(* Every JavaScript value is a record tagged with its type (field t), so   *)
(* that truthiness, property access and optional chaining are computed as  *)
(* the language computes them.  A string is a sequence of characters; the  *)
(* long literal texts of the component are one-element sequences.          *)
(*                                                                         *)
(* A step is one browser task: React commits the state updates of an       *)
(* event handler before the next event is dispatched, so a handler always  *)
(* reads the state left by the previous step.                              *)
(***************************************************************************)
EXTENDS Integers, Sequences, FiniteSets

VARIABLES
    isOpen,        \* useState(false), line 15
    messages,      \* useState<Message[]>, lines 16-23
    input,         \* useState(''), line 24
    isLoading,     \* useState(false), line 25
    inflight,      \* getAIResponse calls handleSend is awaiting (line 99)
    now,           \* the value Date.now() returns
    apiKey,        \* import.meta.env.VITE_GEMINI_API_KEY, line 36
    httpRequests,  \* number of fetch() calls issued (line 44)
    lastCall       \* history: what handleSend was called with, or the
                   \* getAIResponse call it has seen complete, in the last step

vars == <<isOpen, messages, input, isLoading, inflight, now, apiKey,
          httpRequests, lastCall>>

-----------------------------------------------------------------------------
(* Bounds of the model *)

\* accepted submissions per behaviour
MaxSubmits == 2
\* milliseconds the clock advances during a behaviour
MaxTicks == 1
\* Date.now() at mount (a stand-in for the current epoch milliseconds)
ClockStart == 1000

-----------------------------------------------------------------------------
(* JavaScript values *)

Undefined == [t |-> "undefined"]
Null == [t |-> "null"]
TypeError == [t |-> "TypeError"]
Num(n) == [t |-> "number", n |-> n]
Str(s) == [t |-> "string", s |-> s]
Obj(f) == [t |-> "object", f |-> f]
Arr(e) == [t |-> "array", e |-> e]

\* ToBoolean: undefined, null, 0 and '' are falsy; objects and arrays are truthy
Truthy(v) ==
    CASE v.t = "undefined" -> FALSE
      [] v.t = "null" -> FALSE
      [] v.t = "number" -> v.n # 0
      [] v.t = "string" -> v.s # <<>>
      [] OTHER -> TRUE

\* v.name : throws a TypeError on null and undefined, undefined when absent
GetProp(v, name) ==
    CASE v.t = "TypeError" -> TypeError
      [] v.t \in {"undefined", "null"} -> TypeError
      [] v.t = "object" -> IF name \in DOMAIN v.f THEN v.f[name] ELSE Undefined
      [] OTHER -> Undefined

\* v[i] : as GetProp, for an array index (no body modelled here has a key "0")
GetIndex(v, i) ==
    CASE v.t = "TypeError" -> TypeError
      [] v.t \in {"undefined", "null"} -> TypeError
      [] v.t = "array" -> IF i + 1 \in DOMAIN v.e THEN v.e[i + 1] ELSE Undefined
      [] v.t = "string" -> IF i + 1 \in DOMAIN v.s THEN Str(<<v.s[i + 1]>>) ELSE Undefined
      [] OTHER -> Undefined

\* v?.name and v?.[i] : undefined instead of a TypeError on null and undefined
OptProp(v, name) == IF v.t \in {"undefined", "null"} THEN Undefined ELSE GetProp(v, name)
OptIndex(v, i) == IF v.t \in {"undefined", "null"} THEN Undefined ELSE GetIndex(v, i)

-----------------------------------------------------------------------------
(* Strings *)

Whitespace == {" "}

RECURSIVE TrimStart(_)
TrimStart(s) ==
    IF s # <<>> /\ Head(s) \in Whitespace THEN TrimStart(Tail(s)) ELSE s

RECURSIVE TrimEnd(_)
TrimEnd(s) ==
    IF s # <<>> /\ s[Len(s)] \in Whitespace
    THEN TrimEnd(SubSeq(s, 1, Len(s) - 1))
    ELSE s

\* String.prototype.trim
Trim(s) == TrimEnd(TrimStart(s))

\* Number.prototype.toString for a non-negative integer: its decimal digits
RECURSIVE ToString(_)
ToString(n) == IF n < 10 THEN <<n>> ELSE ToString(n \div 10) \o <<n % 10>>

\* texts the user can have in the input field: empty, blank, a word, a word
\* between blanks, two words
Drafts ==
    { <<>>,
      <<" ">>,
      <<"a">>,
      <<" ", "a", " ">>,
      <<"a", " ", "b">> }


-----------------------------------------------------------------------------
(* The Generation Client: getAIResponse, lines 35-82 *)

\* line 40: returned when no credential is configured (five study tips; the
\* bullet character of the source is written * here)
NoKeyFallback == <<"I'm here to help! To enable AI-powered responses, please add your Gemini API key to the .env file. In the meantime, I can provide general study tips:\n\n* Create a study schedule and stick to it\n* Practice regularly with mock tests\n* Focus on understanding concepts, not just memorization\n* Take regular breaks to avoid burnout\n* Review your mistakes and learn from them\n\nWhat specific topic would you like help with?">>
\* line 77: returned when the response carries no generated text
TroubleFallback == <<"I apologize, but I'm having trouble generating a response right now. Please try rephrasing your question.">>
\* line 80: returned from the catch block
TechnicalFallback == <<"I'm experiencing some technical difficulties. Please try again in a moment.">>

\* the values import.meta.env.VITE_GEMINI_API_KEY can have: the variable is
\* not defined, defined empty, or defined with a key
ApiKeys == {Undefined, Str(<<>>), Str(<<"k", "e", "y">>)}

\* a response body { candidates: [ { content: { parts: [ part ] } } ] }
BodyWithPart(part) ==
    Obj([candidates |-> Arr(<<Obj([content |-> Obj([parts |-> Arr(<<part>>)])])>>)])

\* JSON values response.json() can resolve to
Bodies ==
    { Null,
      Num(5),
      Obj([error |-> Obj([code |-> Num(400)])]),
      Obj([candidates |-> Null]),
      Obj([candidates |-> Arr(<<>>)]),
      Obj([candidates |-> Arr(<<Null>>)]),
      Obj([candidates |-> Arr(<<Obj([finishReason |-> Str(<<"SAFETY">>)])>>)]),
      Obj([candidates |-> Arr(<<Obj([content |-> Obj([role |-> Str(<<"model">>)])])>>)]),
      Obj([candidates |-> Arr(<<Obj([content |-> Obj([parts |-> Arr(<<>>)])])>>)]),
      BodyWithPart(Obj([inlineData |-> Str(<<"x">>)])),
      BodyWithPart(Obj([text |-> Str(<<>>)])),
      BodyWithPart(Obj([text |-> Str(<<"F", "=", "m", "a">>)])),
      BodyWithPart(Obj([text |-> Num(42)])) }

\* what the gateway can do with one request: fetch rejects (line 44),
\* response.json() rejects (line 71), or response.json() resolves to a body
Outcomes ==
    { [kind |-> "network_error"], [kind |-> "unparseable"] }
        \cup { [kind |-> "json", data |-> b] : b \in Bodies }

\* no request was made, so the gateway did nothing
NotCalled == [kind |-> "not_called"]

Return(v) == [kind |-> "return", value |-> v]
Throw == [kind |-> "throw"]

\* a plausible slip: the second candidate is read instead of the first
GeneratedText_SecondCandidate(data) ==
    OptProp(OptIndex(OptProp(OptProp(GetIndex(GetProp(data, "candidates"), 1),
                                     "content"), "parts"), 0), "text")

\* line 73, right operand: data.candidates[0]?.content?.parts?.[0]?.text
GeneratedText(data) ==
    OptProp(OptIndex(OptProp(OptProp(GetIndex(GetProp(data, "candidates"), 0),
                                     "content"), "parts"), 0), "text")

\* lines 43-77: the try block.  It ends by returning a value, or by throwing:
\* fetch rejects (line 44), response.json() rejects (line 71), or reading a
\* property of null or undefined raises a TypeError (line 73)
TryBlock(outcome) ==
    IF outcome.kind \in {"network_error", "unparseable"} THEN Throw
    ELSE LET data == outcome.data
             candidates == GetProp(data, "candidates")
         IN  IF candidates = TypeError THEN Throw
             ELSE IF ~Truthy(candidates) THEN Return(Str(TroubleFallback))
             ELSE IF GeneratedText(data) = TypeError THEN Throw
             ELSE IF Truthy(GeneratedText(data)) THEN Return(GeneratedText(data))
             ELSE Return(Str(TroubleFallback))

\* a plausible slip: the catch block logs the error and throws it again
Catch_Rethrows(r) == r

\* a plausible slip: the catch block returns the text of line 77
Catch_WrongText(r) == IF r.kind = "throw" THEN Return(Str(TroubleFallback)) ELSE r

\* lines 78-81: the catch block turns whatever was thrown into a returned text
Catch(r) == IF r.kind = "throw" THEN Return(Str(TechnicalFallback)) ELSE r

\* a plausible slip: a missing credential is reported by throwing
GetAIResponse_NoKeyThrows(key, outcome) ==
    IF ~Truthy(key) THEN Throw ELSE Catch(TryBlock(outcome))

\* lines 35-82: how getAIResponse ends, given the credential and, when a
\* request is made, what the gateway does with it
GetAIResponse(key, outcome) ==
    IF ~Truthy(key) THEN Return(Str(NoKeyFallback)) ELSE Catch(TryBlock(outcome))

\* lines 56-62: the text of the request, the instructions around the question
RequestText(userMessage) ==
    <<"You are an expert educational assistant for students preparing for JEE (Joint Entrance Examination), NEET (National Eligibility cum Entrance Test), and BTech courses. Your role is to help students understand concepts, solve doubts, and provide study guidance.\n\nContext: The student is using EduPath, an educational platform.\n\nStudent's question: ">>
        \o userMessage.s
        \o <<"\n\nPlease provide a clear, concise, and helpful response. If the question is about a specific subject (Physics, Chemistry, Mathematics, Biology), provide detailed explanations with examples where appropriate.">>

\* lines 44-69: the POST getAIResponse sends for userMessage
Request(userMessage) == [method |-> "POST", text |-> RequestText(userMessage)]

\* a plausible slip: the test of line 39 is inverted
MakesRequest_Inverted(key) == ~Truthy(key)

\* a plausible slip: the request is made before the credential is looked at
MakesRequest_Always(key) == TRUE

\* line 39: a request is made only with a credential
MakesRequest(key) == Truthy(key)

-----------------------------------------------------------------------------
(* The Conversation Widget: ChatBot, lines 14-224 *)

\* line 20
Greeting == <<"Hi! I'm your EduPath study assistant. I can help you with JEE, NEET, and BTech subjects. What would you like to know?">>

\* lines 7-12
Message(id, role, content, timestamp) ==
    [id |-> id, role |-> role, content |-> content, timestamp |-> timestamp]

\* lines 17-22: the seeded message, created at mount
SeededMessage == Message(<<1>>, "assistant", Str(Greeting), ClockStart)

\* the last step neither called handleSend nor completed a call
NoCall == [kind |-> "none"]

\* the user Messages of the Conversation
UserMessages == {i \in DOMAIN messages : messages[i].role = "user"}

\* line 99: a call whose promise is already resolved resumes handleSend in a
\* microtask, before the browser dispatches any other event
Interactive == \A i \in DOMAIN inflight : inflight[i].http

\* a plausible slip: the new Message takes the place of the last one
Appended_OverLast(prev, message) == Append(SubSeq(prev, 1, Len(prev) - 1), message)

\* lines 94 and 108: [...prev, message]
Appended(prev, message) == Append(prev, message)

\* a plausible slip: handleSend does not call setInput('')
InputOnSend_Kept == input

\* line 95: setInput('')
InputOnSend == <<>>

\* a plausible slip: handleSend does not call setIsLoading(true)
LoadingOnSend_Forgotten == isLoading

\* line 96: setIsLoading(true)
LoadingOnSend == TRUE

\* line 112: setIsLoading(false), in the finally block
LoadingOnCompletion == FALSE

\* a plausible slip: the early return of line 85 is missing
CanSend_NoGuard == TRUE

\* a plausible slip: line 85 tests input where it should test input.trim()
CanSend_NoTrim == input # <<>> /\ ~isLoading

\* line 85, negated: handleSend goes on only with a non-blank draft and not busy
CanSend == Trim(input) # <<>> /\ ~isLoading

\* a plausible slip: the Conversation starts empty
Init_EmptyConversation ==
    /\ isOpen = FALSE
    /\ messages = <<>>
    /\ input = <<>>
    /\ isLoading = FALSE
    /\ inflight = <<>>
    /\ now = ClockStart
    /\ apiKey \in ApiKeys
    /\ httpRequests = 0
    /\ lastCall = NoCall

Init ==
    /\ isOpen = FALSE
    /\ messages = <<SeededMessage>>
    /\ input = <<>>
    /\ isLoading = FALSE
    /\ inflight = <<>>
    /\ now = ClockStart
    /\ apiKey \in ApiKeys
    /\ httpRequests = 0
    /\ lastCall = NoCall

\* line 129: the floating button, rendered while the widget is closed
Open ==
    /\ ~isOpen
    /\ Interactive
    /\ isOpen' = TRUE
    /\ lastCall' = NoCall
    /\ UNCHANGED <<messages, input, isLoading, inflight, now, apiKey, httpRequests>>

\* a plausible slip: closing the widget abandons the request in flight
Close_Cancels ==
    /\ isOpen
    /\ Interactive
    /\ isOpen' = FALSE
    /\ inflight' = <<>>
    /\ isLoading' = FALSE
    /\ lastCall' = NoCall
    /\ UNCHANGED <<messages, input, now, apiKey, httpRequests>>

\* a plausible slip: closing the widget starts the Conversation afresh
Close_ResetsConversation ==
    /\ isOpen
    /\ Interactive
    /\ isOpen' = FALSE
    /\ messages' = <<SeededMessage>>
    /\ lastCall' = NoCall
    /\ UNCHANGED <<input, isLoading, inflight, now, apiKey, httpRequests>>

\* line 154: the X button of the header, rendered while the widget is open
Close ==
    /\ isOpen
    /\ Interactive
    /\ isOpen' = FALSE
    /\ lastCall' = NoCall
    /\ UNCHANGED <<messages, input, isLoading, inflight, now, apiKey, httpRequests>>

\* a plausible slip: the input is not disabled while isLoading
SetInput_NotDisabled(text) ==
    /\ isOpen
    /\ Interactive
    /\ text # input
    /\ input' = text
    /\ lastCall' = NoCall
    /\ UNCHANGED <<isOpen, messages, isLoading, inflight, now, apiKey, httpRequests>>

\* lines 200-208: onChange of the text input, which is rendered while the
\* widget is open and disabled while isLoading
SetInput(text) ==
    /\ isOpen
    /\ ~isLoading
    /\ Interactive
    /\ text # input
    /\ input' = text
    /\ lastCall' = NoCall
    /\ UNCHANGED <<isOpen, messages, isLoading, inflight, now, apiKey, httpRequests>>

\* lines 84-99: handleSend up to its await, called by Enter in the input
\* (line 119) or by the send button (line 210)
HandleSend ==
    /\ isOpen
    /\ Interactive
    /\ CanSend => Cardinality(UserMessages) < MaxSubmits
    /\ lastCall' = [kind |-> "send", draft |-> input, busy |-> isLoading]
    /\ IF ~CanSend
       THEN UNCHANGED <<isOpen, messages, input, isLoading, inflight, now, apiKey,
                        httpRequests>>
       ELSE LET userMessage == Message(ToString(now), "user", Str(Trim(input)), now)
            IN  /\ messages' = Appended(messages, userMessage)
                /\ input' = InputOnSend
                /\ isLoading' = LoadingOnSend
                /\ inflight' = Append(inflight,
                                      [userMessage |-> userMessage.content,
                                       http |-> MakesRequest(apiKey),
                                       request |-> IF MakesRequest(apiKey)
                                                   THEN Request(userMessage.content)
                                                   ELSE NotCalled])
                /\ httpRequests' = IF MakesRequest(apiKey) THEN httpRequests + 1
                                   ELSE httpRequests
                /\ UNCHANGED <<isOpen, now, apiKey>>

\* the sequence s without its i-th element
RemoveAt(s, i) == SubSeq(s, 1, i - 1) \o SubSeq(s, i + 1, Len(s))

\* a plausible slip: setIsLoading(false) ends the try block instead of
\* standing in a finally block
Complete_NoFinally(i, outcome, result) ==
    LET call == inflight[i]
        assistantMessage == Message(ToString(now + 1), "assistant", result.value, now)
    IN  /\ outcome.kind = "not_called" <=> ~call.http
        /\ messages' = IF result.kind = "return"
                       THEN Appended(messages, assistantMessage)
                       ELSE messages
        /\ isLoading' = IF result.kind = "return" THEN LoadingOnCompletion ELSE isLoading
        /\ inflight' = RemoveAt(inflight, i)
        /\ lastCall' = [kind |-> "call", userMessage |-> call.userMessage,
                        outcome |-> outcome, result |-> result]
        /\ UNCHANGED <<isOpen, input, now, apiKey, httpRequests>>

\* lines 99-113: handleSend from the completion of its await: the call
\* inflight[i] ends with `result`, the gateway having done `outcome` with its
\* request.  A returned value is appended (lines 101-108), an exception is
\* logged (lines 109-110), and the finally block clears the flag either way
Complete(i, outcome, result) ==
    LET call == inflight[i]
        assistantMessage == Message(ToString(now + 1), "assistant", result.value, now)
    IN  /\ outcome.kind = "not_called" <=> ~call.http
        /\ messages' = IF result.kind = "return"
                       THEN Appended(messages, assistantMessage)
                       ELSE messages
        /\ isLoading' = LoadingOnCompletion
        /\ inflight' = RemoveAt(inflight, i)
        /\ lastCall' = [kind |-> "call", userMessage |-> call.userMessage,
                        outcome |-> outcome, result |-> result]
        /\ UNCHANGED <<isOpen, input, now, apiKey, httpRequests>>

\* the call inflight[i] ends the way getAIResponse ends it
Arrive(i, outcome) == Complete(i, outcome, GetAIResponse(apiKey, outcome))

\* the promise handleSend awaits at line 99 rejects.  getAIResponse as written
\* never rejects; this step is the catch path of handleSend (lines 109-113)
\* taken on its own, for a client that fails
Reject(i, outcome) == Complete(i, outcome, Throw)

\* the clock moves on by a millisecond
Tick ==
    /\ now < ClockStart + MaxTicks
    /\ now' = now + 1
    /\ lastCall' = NoCall
    /\ UNCHANGED <<isOpen, messages, input, isLoading, inflight, apiKey, httpRequests>>

\* a call that is in flight completes: fetch resolves or rejects
Completion == \E i \in DOMAIN inflight : \E outcome \in Outcomes \cup {NotCalled} : Arrive(i, outcome)

Next ==
    \/ Open
    \/ Close
    \/ \E text \in Drafts : SetInput(text)
    \/ HandleSend
    \/ Completion
    \/ Tick

Spec == Init /\ [][Next]_vars

\* a call that is in flight ends in an exception
Rejection == \E i \in DOMAIN inflight : \E outcome \in Outcomes \cup {NotCalled} : Reject(i, outcome)

NextRejecting ==
    \/ Next
    \/ Rejection

\* the widget around a client that may also throw: handleSend is as in Spec,
\* the promise it awaits may reject
RejectingSpec == Init /\ [][NextRejecting]_vars

\* Spec, with every gateway call eventually resolving or failing
FairSpec == Spec /\ WF_vars(Completion)

-----------------------------------------------------------------------------
(* Properties *)

Last(s) == s[Len(s)]

\* the precondition of submit(), read off the state before the step
Accepts == Trim(input) # <<>> /\ ~isLoading

\* C1: at most one getAIResponse call is in flight at any time, whatever the
\* sequence of open, close, updateDraft, submit and arrival steps
C1_AtMostOneInFlight == Len(inflight) <= 1

\* a second round-trip is in flight, and handleSend was called during it
C1_Witness ==
    /\ Len(inflight) = 1
    /\ Cardinality(UserMessages) = 2
    /\ lastCall.kind = "send"
    /\ lastCall.busy

\* C2: a submit() whose precondition fails (busy, or a draft that is blank
\* once trimmed) leaves the Conversation, the draft and the busy flag as they
\* were and starts no client call
C2_RejectedSubmitIsNoOp ==
    [][(lastCall'.kind = "send" /\ ~Accepts)
         => UNCHANGED <<messages, input, isLoading, inflight, httpRequests>>]_vars

\* handleSend has just been called while busy
C2_Witness ==
    /\ lastCall.kind = "send"
    /\ lastCall.busy
    /\ isLoading

\* C3: an accepted submit() appends exactly one user Message holding the
\* trimmed draft, the completion of its round-trip appends exactly one
\* assistant Message holding what the client returned, and nothing else
\* changes the length: one user Message and one assistant Message per
\* round-trip, on every path of the client
C3_TwoPerRoundTrip ==
    /\ [][/\ (lastCall'.kind = "send" /\ Accepts)
               => /\ Len(messages') = Len(messages) + 1
                  /\ Last(messages').role = "user"
                  /\ Last(messages').content = Str(Trim(input))
          /\ lastCall'.kind = "call"
               => /\ Len(messages') = Len(messages) + 1
                  /\ Last(messages').role = "assistant"
                  /\ Last(messages').content
                        = GetAIResponse(apiKey, lastCall'.outcome).value
          /\ (lastCall'.kind # "call" /\ ~(lastCall'.kind = "send" /\ Accepts))
               => Len(messages') = Len(messages)]_vars
    /\ [](Len(messages) = 1 + 2 * Cardinality(UserMessages) - Len(inflight))

\* two round-trips have completed, the last one through the catch block
C3_Witness ==
    /\ Len(messages) = 5
    /\ lastCall.kind = "call"
    /\ lastCall.outcome.kind = "network_error"

\* C4: every user Message is eventually followed by an assistant Message,
\* provided every gateway call eventually resolves or fails.  A user Message
\* is appended last and Messages stay where they are, so it is enough that
\* the last Message does not stay a user Message.  It is followed by exactly
\* one assistant Message (the Message after the answer is a user Message),
\* and the answer comes from the call that was given this user Message's
\* text.  No call of the client ends in an exception, so no user Message
\* stays unanswered
C4_UserMessageAnswered ==
    /\ (Last(messages).role = "user") ~> (Last(messages).role = "assistant")
    /\ [][SubSeq(messages', 1, Len(messages)) = messages]_vars
    /\ [](\A i \in DOMAIN messages :
             (messages[i].role = "user" /\ i + 1 \in DOMAIN messages)
                => /\ messages[i + 1].role = "assistant"
                   /\ i + 2 \in DOMAIN messages => messages[i + 2].role = "user")
    /\ [](lastCall.kind = "call"
             => /\ Len(messages) >= 2
                /\ Last(messages).role = "assistant"
                /\ messages[Len(messages) - 1].role = "user"
                /\ messages[Len(messages) - 1].content = lastCall.userMessage)

\* a user Message has its answer, and the next user Message is waiting for its own
C4_Witness ==
    /\ Len(messages) = 4
    /\ messages[2].role = "user"
    /\ messages[3].role = "assistant"
    /\ messages[4].role = "user"
    /\ isLoading

\* C5: the busy flag is true exactly while a round-trip is outstanding: set
\* in the step that appends the user Message and starts the call, cleared in
\* the step that completes it, on every path
C5_BusyIffInFlight ==
    /\ [](isLoading <=> Len(inflight) > 0)
    /\ [][/\ (~isLoading /\ isLoading')
               => /\ lastCall'.kind = "send"
                  /\ Len(messages') = Len(messages) + 1
                  /\ Last(messages').role = "user"
                  /\ Len(inflight') = Len(inflight) + 1
          /\ (isLoading /\ ~isLoading')
               => /\ lastCall'.kind = "call"
                  /\ Len(inflight') = Len(inflight) - 1]_vars

\* the busy flag has been cleared by a completion that went through the catch block
C5_Witness ==
    /\ ~isLoading
    /\ lastCall.kind = "call"
    /\ lastCall.outcome.kind = "unparseable"

\* C6: no two Messages of the Conversation have the same id
C6_UniqueIds ==
    \A i, j \in DOMAIN messages : i # j => messages[i].id # messages[j].id

\* C7: getAIResponse ends by returning, and what it returns is a string,
\* whatever the gateway did
C7_ReturnsString ==
    lastCall.kind = "call"
        => /\ lastCall.result.kind = "return"
           /\ lastCall.result.value.t = "string"

\* the candidates[0].content.parts[0].text of a body, undefined when any step
\* of that path is missing
Field(v, name) == IF v.t = "object" /\ name \in DOMAIN v.f THEN v.f[name] ELSE Undefined
Element(v, i) == IF v.t = "array" /\ i + 1 \in DOMAIN v.e THEN v.e[i + 1] ELSE Undefined
TextOf(body) ==
    Field(Element(Field(Field(Element(Field(body, "candidates"), 0), "content"),
                        "parts"), 0), "text")

\* the text is absent, or it is the empty string
TextAbsentOrEmpty(body) == TextOf(body) \in {Undefined, Str(<<>>)}

\* C8: with a credential, a body whose candidates[0].content.parts[0].text is
\* absent or empty is answered with the text of line 77
C8_TroubleOnMalformedBody ==
    ( /\ lastCall.kind = "call"
      /\ lastCall.outcome.kind = "json"
      /\ TextAbsentOrEmpty(lastCall.outcome.data) )
        => /\ Last(messages).role = "assistant"
           /\ Last(messages).content = Str(TroubleFallback)

\* C9: with a credential, a request that fails in transport or whose body
\* cannot be parsed is caught in the client: getAIResponse returns the text
\* of line 80, that text is the content of the assistant Message appended,
\* and the busy flag is false afterwards
C9_TechnicalOnTransportFailure ==
    ( /\ lastCall.kind = "call"
      /\ lastCall.outcome.kind \in {"network_error", "unparseable"} )
        => /\ Truthy(apiKey)
           /\ lastCall.result = Return(Str(TechnicalFallback))
           /\ Last(messages).role = "assistant"
           /\ Last(messages).content = Str(TechnicalFallback)
           /\ messages[Len(messages) - 1].role = "user"
           /\ ~isLoading

\* a second round-trip has ended with a body that could not be parsed
C9_Witness ==
    /\ lastCall.kind = "call"
    /\ lastCall.outcome.kind = "unparseable"
    /\ Len(messages) = 5
    /\ ~isLoading

\* C10: without a credential, an accepted submission appends the user Message
\* at once, its completion appends an assistant Message whose content is the
\* study-tips text of line 40, and no request is ever sent to the gateway
C10_NoCredentialFallback ==
    /\ [](~Truthy(apiKey)
            => /\ httpRequests = 0
               /\ \A i \in DOMAIN messages :
                     (i > 1 /\ messages[i].role = "assistant")
                        => messages[i].content = Str(NoKeyFallback)
               /\ lastCall.kind = "call"
                     => /\ lastCall.outcome = NotCalled
                        /\ Last(messages).role = "assistant"
                        /\ messages[Len(messages) - 1].content = lastCall.userMessage)
    /\ [][(~Truthy(apiKey) /\ lastCall'.kind = "send" /\ Accepts)
            => messages' = Append(messages,
                                  Message(ToString(now), "user", Str(Trim(input)), now))]_vars

\* without a credential, two submissions have been answered
C10_Witness ==
    /\ ~Truthy(apiKey)
    /\ Len(messages) = 5
    /\ lastCall.kind = "call"

\* C11: with a credential, a body whose candidates[0].content.parts[0].text
\* is a non-empty text is answered with exactly that text
C11_GeneratedTextIsContent ==
    ( /\ lastCall.kind = "call"
      /\ lastCall.outcome.kind = "json"
      /\ TextOf(lastCall.outcome.data).t = "string"
      /\ TextOf(lastCall.outcome.data).s # <<>> )
        => /\ Truthy(apiKey)
           /\ lastCall.result = Return(TextOf(lastCall.outcome.data))
           /\ Last(messages).role = "assistant"
           /\ Last(messages).content = TextOf(lastCall.outcome.data)
           /\ messages[Len(messages) - 1].content = lastCall.userMessage

\* the gateway has answered with a text
C11_Witness ==
    /\ lastCall.kind = "call"
    /\ lastCall.outcome.kind = "json"
    /\ TextOf(lastCall.outcome.data) = Str(<<"F", "=", "m", "a">>)
    /\ Last(messages).content = Str(<<"F", "=", "m", "a">>)

\* C12: a request in flight is not cancelled by closing or opening the
\* widget: such a step leaves the call in flight and the Conversation as they
\* were, the call can complete whatever the visibility, and its completion
\* appends the assistant Message, which stays in the Conversation when the
\* widget is opened again
C12_NoCancellation ==
    /\ [][(isOpen' # isOpen) => (inflight' = inflight /\ messages' = messages)]_vars
    /\ [](Len(inflight) > 0 => ENABLED Completion)
    /\ [][lastCall'.kind = "call"
            => /\ Len(messages') = Len(messages) + 1
               /\ Last(messages').role = "assistant"
               /\ isOpen' = isOpen]_vars

\* the widget was closed during the request (a request starts only while it
\* is open) and the answer has just been appended while it is closed
C12_Witness ==
    /\ ~isOpen
    /\ lastCall.kind = "call"
    /\ Len(messages) = 3
    /\ messages[3].role = "assistant"
    /\ messages[3].timestamp > messages[2].timestamp

\* C13: open() and close() change the visibility flag and nothing else, also
\* while a request is in flight
C13_OpenCloseFrame ==
    [][(isOpen' # isOpen)
         => UNCHANGED <<messages, input, isLoading, inflight, now, apiKey, httpRequests>>]_vars

\* the widget has been closed while a request is in flight
C13_Witness ==
    /\ ~isOpen
    /\ isLoading
    /\ Len(inflight) = 1
    /\ lastCall = NoCall

\* C14: the Conversation is never empty, its first Message is the seeded
\* assistant greeting, and that Message occurs nowhere else in it
C14_GreetingFirst ==
    /\ Len(messages) >= 1
    /\ messages[1].role = "assistant"
    /\ messages[1].content = Str(Greeting)
    /\ messages[1].id = <<1>>
    /\ \A i \in DOMAIN messages : i > 1 => messages[i] # messages[1]

\* the greeting still leads a Conversation of two round-trips
C14_Witness ==
    /\ Len(messages) = 5
    /\ messages[1].content = Str(Greeting)
    /\ ~isLoading

\* C15: an accepted submit() empties the draft in the step that appends the
\* user Message, and the completion of its round-trip leaves the draft as it
\* is, however the round-trip ends
C15_DraftClearedNotRestored ==
    /\ [][(lastCall'.kind = "send" /\ Accepts)
            => (input' = <<>> /\ Len(messages') = Len(messages) + 1)]_vars
    /\ [][lastCall'.kind = "call" => input' = input]_vars
    /\ [](lastCall.kind = "call" => input = <<>>)

\* a round-trip that was started from a draft has ended in the catch block
\* of the client, and the draft is empty
C15_Witness ==
    /\ lastCall.kind = "call"
    /\ lastCall.outcome.kind = "network_error"
    /\ lastCall.userMessage = Str(<<"a", " ", "b">>)
    /\ input = <<>>

\* C16: when the client call raises an exception to the widget, the busy
\* flag is cleared and no Message is appended, so the user Message of that
\* call stays the last one; a submit() with a non-blank draft is then
\* accepted again.  Checked for handleSend around a client that may throw
C16_ExceptionClearsBusy ==
    /\ [][(lastCall'.kind = "call" /\ lastCall'.result.kind = "throw")
            => /\ messages' = messages
               /\ Last(messages').role = "user"
               /\ Last(messages').content = lastCall'.userMessage
               /\ ~isLoading'
               /\ inflight' = <<>>]_vars
    /\ [][(lastCall'.kind = "send" /\ Trim(input) # <<>> /\ Last(messages).role = "user"
             /\ Len(inflight) = 0)
            => /\ messages' = Append(messages,
                                     Message(ToString(now), "user", Str(Trim(input)), now))
               /\ isLoading']_vars

\* a call has ended in an exception, and the submit() that followed it was accepted
C16_Witness ==
    /\ Len(messages) = 3
    /\ messages[2].role = "user"
    /\ messages[3].role = "user"
    /\ isLoading
    /\ lastCall.kind = "send"

\* C17: the Conversation is the greeting followed by user/assistant pairs in
\* the order of submission: past the greeting, Messages at even places are
\* user Messages and Messages at odd places are assistant Messages (so no two
\* assistant Messages and no two user Messages are adjacent: no call of the
\* client ends in an exception), and the assistant Message a completion
\* appends stands right after the user Message whose text its call was given
C17_PairsInSubmissionOrder ==
    /\ \A i \in DOMAIN messages :
          i > 1 => (messages[i].role = "user" <=> i % 2 = 0)
    /\ messages[1].role = "assistant"
    /\ lastCall.kind = "call"
          => /\ Last(messages).role = "assistant"
             /\ Last(messages).content = lastCall.result.value
             /\ messages[Len(messages) - 1].role = "user"
             /\ messages[Len(messages) - 1].content = lastCall.userMessage
    /\ \A i \in DOMAIN inflight :
          /\ Last(messages).role = "user"
          /\ Last(messages).content = inflight[i].userMessage

\* two round-trips with different texts have been answered in order
C17_Witness ==
    /\ Len(messages) = 5
    /\ messages[2].content = Str(<<"a">>)
    /\ messages[4].content = Str(<<"a", " ", "b">>)
    /\ lastCall.kind = "call"
    /\ lastCall.userMessage = Str(<<"a", " ", "b">>)

\* C18: every step leaves the Conversation as it is or appends one Message
\* to it, so the Messages already there keep their place, id, role and content
C18_AppendOnly ==
    [][\/ messages' = messages
       \/ /\ Len(messages') = Len(messages) + 1
          /\ SubSeq(messages', 1, Len(messages)) = messages]_vars

\* the first round-trip is still in place after the second
C18_Witness ==
    /\ Len(messages) = 5
    /\ messages[2].role = "user"
    /\ messages[3].role = "assistant"
    /\ messages[3].content = Str(TroubleFallback)
    /\ messages[5].content = Str(TechnicalFallback)

\* C19: with a credential, the number of requests sent equals the number of
\* accepted submissions: an accepted submit() sends one POST whose text is
\* the instructions around the trimmed draft, and no other step sends one,
\* whatever the outcome of a request
C19_OneRequestPerSubmission ==
    /\ [](Truthy(apiKey) => httpRequests = Cardinality(UserMessages))
    /\ [][(Truthy(apiKey) /\ lastCall'.kind = "send" /\ Accepts)
            => /\ httpRequests' = httpRequests + 1
               /\ Last(inflight').request.method = "POST"
               /\ Last(inflight').request.text = RequestText(Str(Trim(input)))]_vars
    /\ [][~(lastCall'.kind = "send" /\ Accepts) => httpRequests' = httpRequests]_vars

\* two requests were sent for two submissions, the first of which failed in transport
C19_Witness ==
    /\ Truthy(apiKey)
    /\ httpRequests = 2
    /\ Len(messages) = 4
    /\ messages[3].content = Str(TechnicalFallback)

\* C20: while busy the draft is empty, and the draft changes to a non-empty
\* text only in a step taken while not busy
C20_DraftEmptyWhileBusy ==
    /\ [](isLoading => input = <<>>)
    /\ [][(input' # input /\ input' # <<>>) => (~isLoading /\ ~isLoading')]_vars

\* a draft is typed again after the round-trip has completed
C20_Witness ==
    /\ ~isLoading
    /\ input # <<>>
    /\ Len(messages) = 3
    /\ messages[3].role = "assistant"

====
